---- MODULE Spec2Model ----
(***************************************************************************)
(* The all-solutions SAT driver of sat-solve (sat-lib/src/solver.rs) with  *)
(* its depth-first brute-force strategy (src/solvers/dfs.rs), the formula  *)
(* and assignment types (src/types.rs) and the satisfaction evaluation     *)
(* (src/utils.rs).                                                         *)
(***************************************************************************)
EXTENDS Integers, Sequences, FiniteSets, TLC

\* Literal ids range over 1..MaxLit.
MaxLit == 3
\* An input formula holds at most MaxOcc variable occurrences in all.
MaxOcc == 2

(***************************************************************************)
(* Data model (src/types.rs)                                               *)
(***************************************************************************)
Literal == 1..MaxLit

Positive(id) == [pol |-> "Positive", id |-> id]
Negative(id) == [pol |-> "Negative", id |-> id]

Variable == {Positive(id) : id \in Literal} \cup {Negative(id) : id \in Literal}

\* A push that is lost.
add_dropped(f, clause) == f

\* Puts the clause in front of the others.
add_front(f, clause) == <<clause>> \o f

\* Vec::push on Formula.0
add(f, clause) == Append(f, clause)

\* slice::sort on a Vec<u32>: ascending, duplicates kept.
RECURSIVE sort(_)
sort(s) ==
    IF s = <<>> THEN <<>>
    ELSE LET m == CHOOSE i \in 1..Len(s) : \A j \in 1..Len(s) : s[i] <= s[j]
         IN <<s[m]>> \o sort(SubSeq(s, 1, m - 1) \o SubSeq(s, m + 1, Len(s)))

\* A dedup that removes nothing.
dedup_off(s) == s

\* Vec::dedup: removes consecutive repeated elements.
RECURSIVE dedup(_)
dedup(s) ==
    IF Len(s) <= 1 THEN s
    ELSE LET d == dedup(SubSeq(s, 1, Len(s) - 1))
         IN IF d[Len(d)] = s[Len(s)] THEN d ELSE Append(d, s[Len(s)])

\* Collects the ids of the positive occurrences only.
clause_literals_positive(clause) ==
    dedup(sort([i \in 1..Len(SelectSeq(clause, LAMBDA v : v.pol = "Positive")) |->
                    SelectSeq(clause, LAMBDA v : v.pol = "Positive")[i].id]))

\* Clause::literals
clause_literals(clause) ==
    dedup(sort([i \in 1..Len(clause) |-> clause[i].id]))

RECURSIVE extend_all(_)
extend_all(f) ==
    IF f = <<>> THEN <<>>
    ELSE extend_all(SubSeq(f, 1, Len(f) - 1)) \o clause_literals(f[Len(f)])

\* Formula::literals
literals(f) == dedup(sort(extend_all(f)))

RECURSIVE push_all(_)
push_all(f) ==
    IF f = <<>> THEN <<>>
    ELSE push_all(SubSeq(f, 1, Len(f) - 1)) \o [i \in 1..Len(f[Len(f)]) |-> f[Len(f)][i].id]

\* Leaves the ids in the order the clauses mention them.
get_variables_unsorted(f) == dedup(push_all(f))

\* get_variables (utils.rs): every id pushed in clause order, then sort, dedup.
get_variables(f) == dedup(sort(push_all(f)))

\* Solution::new
new == [id \in {} |-> FALSE]

\* Keeps the binding an id already has.
insert_if_absent(sol, id, value) ==
    [k \in (DOMAIN sol) \cup {id} |-> IF k \in DOMAIN sol THEN sol[k] ELSE value]

\* HashMap::insert
insert(sol, id, value) ==
    [k \in (DOMAIN sol) \cup {id} |-> IF k = id THEN value ELSE sol[k]]

\* Leaves the binding in place.
remove_kept(sol, id) == sol

\* HashMap::remove
remove(sol, id) == [k \in (DOMAIN sol) \ {id} |-> sol[k]]

\* Solution::reset: every bound value becomes false, no key is removed.
reset(sol) == [k \in DOMAIN sol |-> FALSE]

\* The orders in which iterating a HashMap may visit its keys.  The order is
\* unspecified; the model draws it afresh at every iteration from the
\* ascending and the descending key order (every order of up to two keys).
RECURSIVE ascending(_)
ascending(keys) ==
    IF keys = {} THEN <<>>
    ELSE LET m == CHOOSE k \in keys : \A j \in keys : k <= j
         IN <<m>> \o ascending(keys \ {m})

reverse(s) == [i \in 1..Len(s) |-> s[Len(s) + 1 - i]]

iter(sol) == {ascending(DOMAIN sol), reverse(ascending(DOMAIN sol))}

\* Keeps the polarity of the value instead of negating it.
negative_clause_same_polarity(sol, order) ==
    [i \in 1..Len(order) |->
        IF sol[order[i]] THEN Positive(order[i]) ELSE Negative(order[i])]

\* Blocks with the literals bound to true only.
negative_clause_true_only(sol, order) ==
    [i \in 1..Len(SelectSeq(order, LAMBDA id : sol[id])) |->
        Negative(SelectSeq(order, LAMBDA id : sol[id])[i])]

\* Solution::negative_clause, visiting the keys in the given order.
negative_clause(sol, order) ==
    [i \in 1..Len(order) |->
        IF sol[order[i]] THEN Negative(order[i]) ELSE Positive(order[i])]

(***************************************************************************)
(* Satisfaction evaluation (src/utils.rs)                                  *)
(***************************************************************************)
\* solution.get(id).unwrap_or(&false)
get_or_false(sol, id) == IF id \in DOMAIN sol THEN sol[id] ELSE FALSE

\* Ignores the polarity.
eval_variable_unsigned(variable, sol) == get_or_false(sol, variable.id)

eval_variable(variable, sol) ==
    IF variable.pol = "Positive" THEN get_or_false(sol, variable.id)
    ELSE ~get_or_false(sol, variable.id)

\* Takes the empty clause for satisfied.
RECURSIVE satisfy_clause_vacuous(_, _)
satisfy_clause_vacuous(clause, sol) ==
    IF clause = <<>> THEN TRUE
    ELSE IF eval_variable(Head(clause), sol) THEN TRUE
    ELSE Len(clause) > 1 /\ satisfy_clause_vacuous(Tail(clause), sol)

\* Looks at the first variable of the clause only.
satisfy_clause_head_only(clause, sol) ==
    IF clause = <<>> THEN FALSE ELSE eval_variable(Head(clause), sol)

\* Asks for every variable of the clause to be true.
RECURSIVE satisfy_clause_all(_, _)
satisfy_clause_all(clause, sol) ==
    IF clause = <<>> THEN FALSE
    ELSE IF ~eval_variable(Head(clause), sol) THEN FALSE
    ELSE Len(clause) = 1 \/ satisfy_clause_all(Tail(clause), sol)

RECURSIVE satisfy_clause(_, _)
satisfy_clause(clause, sol) ==
    IF clause = <<>> THEN FALSE
    ELSE IF eval_variable(Head(clause), sol) THEN TRUE
    ELSE satisfy_clause(Tail(clause), sol)

\* Decides on the first clause alone.
satisfy_formula_first_only(f, sol) ==
    IF f = <<>> THEN TRUE ELSE satisfy_clause(Head(f), sol)

RECURSIVE satisfy_formula(_, _)
satisfy_formula(f, sol) ==
    IF f = <<>> THEN TRUE
    ELSE IF ~satisfy_clause(Head(f), sol) THEN FALSE
    ELSE satisfy_formula(Tail(f), sol)

(***************************************************************************)
(* The strict evaluation (Solution::get, Solution::satisfy in types.rs):   *)
(* looking up an id the assignment does not bind panics.  The outcome is   *)
(* "true", "false" or "panic".                                             *)
(***************************************************************************)
get(sol, id) ==
    IF id \in DOMAIN sol THEN (IF sol[id] THEN "true" ELSE "false") ELSE "panic"

\* clause.0.iter().any(...): stops at the first variable that evaluates true.
RECURSIVE any(_, _)
any(clause, sol) ==
    IF clause = <<>> THEN "false"
    ELSE LET v == get(sol, Head(clause).id)
         IN IF v = "panic" THEN "panic"
            ELSE IF (Head(clause).pol = "Positive") = (v = "true") THEN "true"
            ELSE any(Tail(clause), sol)

RECURSIVE satisfy(_, _)
satisfy(sol, f) ==
    IF f = <<>> THEN "true"
    ELSE LET c == any(Head(f), sol)
         IN IF c = "true" THEN satisfy(sol, Tail(f)) ELSE c

(***************************************************************************)
(* Brute-force search (src/solvers/dfs.rs).  The buffer is passed by       *)
(* mutable reference; the operator returns it with the outcome.            *)
(***************************************************************************)
\* What one satisfy_formula call of the search saw and answered.
leaf(f, sol) == [assignment |-> sol, value |-> satisfy_formula(f, sol)]

\* Never tries the value true.
RECURSIVE brute_force_false_only(_, _, _)
brute_force_false_only(f, vars, sol) ==
    IF vars = <<>>
    THEN [ok |-> satisfy_formula(f, sol), solution |-> sol, evaluated |-> <<leaf(f, sol)>>]
    ELSE LET lo == brute_force_false_only(f, Tail(vars), insert(sol, Head(vars), FALSE))
         IN IF lo.ok THEN lo
            ELSE [ok |-> FALSE, solution |-> remove(lo.solution, Head(vars)),
                  evaluated |-> lo.evaluated]

\* Tries the value true before the value false.
RECURSIVE brute_force_true_first(_, _, _)
brute_force_true_first(f, vars, sol) ==
    IF vars = <<>>
    THEN [ok |-> satisfy_formula(f, sol), solution |-> sol, evaluated |-> <<leaf(f, sol)>>]
    ELSE LET hi == brute_force_true_first(f, Tail(vars), insert(sol, Head(vars), TRUE))
         IN IF hi.ok THEN hi
            ELSE LET lo == brute_force_true_first(f, Tail(vars),
                                                  insert(hi.solution, Head(vars), FALSE))
                 IN IF lo.ok
                    THEN [lo EXCEPT !.evaluated = hi.evaluated \o @]
                    ELSE [ok |-> FALSE, solution |-> remove(lo.solution, Head(vars)),
                          evaluated |-> hi.evaluated \o lo.evaluated]

\* Evaluates the formula at every level and stops as soon as it is satisfied.
RECURSIVE brute_force_eager(_, _, _)
brute_force_eager(f, vars, sol) ==
    IF vars = <<>> \/ satisfy_formula(f, sol)
    THEN [ok |-> satisfy_formula(f, sol), solution |-> sol, evaluated |-> <<leaf(f, sol)>>]
    ELSE LET lo == brute_force_eager(f, Tail(vars), insert(sol, Head(vars), FALSE))
         IN IF lo.ok
            THEN [lo EXCEPT !.evaluated = <<leaf(f, sol)>> \o @]
            ELSE LET hi == brute_force_eager(f, Tail(vars),
                                             insert(lo.solution, Head(vars), TRUE))
                 IN IF hi.ok
                    THEN [hi EXCEPT !.evaluated = <<leaf(f, sol)>> \o lo.evaluated \o @]
                    ELSE [ok |-> FALSE, solution |-> remove(hi.solution, Head(vars)),
                          evaluated |-> <<leaf(f, sol)>> \o lo.evaluated \o hi.evaluated]

\* The returned record holds the outcome, the buffer as the call leaves it
\* and, in order, the satisfy_formula calls made.
RECURSIVE brute_force(_, _, _)
brute_force(f, vars, sol) ==
    IF vars = <<>>
    THEN [ok |-> satisfy_formula(f, sol), solution |-> sol, evaluated |-> <<leaf(f, sol)>>]
    ELSE LET variable  == Head(vars)
             remaining == Tail(vars)
             lo == brute_force(f, remaining, insert(sol, variable, FALSE))
         IN IF lo.ok THEN lo
            ELSE LET hi == brute_force(f, remaining, insert(lo.solution, variable, TRUE))
                 IN IF hi.ok
                    THEN [hi EXCEPT !.evaluated = lo.evaluated \o @]
                    ELSE [ok |-> FALSE, solution |-> remove(hi.solution, variable),
                          evaluated |-> lo.evaluated \o hi.evaluated]

None == [tag |-> "None"]
Some(v) == [tag |-> "Some", val |-> v]

\* impl Solver for DFS
solve(f, vars, sol) ==
    LET r == brute_force(f, vars, sol)
    IN [result    |-> IF r.ok THEN Some(r.solution) ELSE None,
        solution  |-> r.solution,
        evaluated |-> r.evaluated]

(***************************************************************************)
(* Input formulas: every sequence of non-empty clauses over Variable with  *)
(* at most MaxOcc occurrences in all (the parser yields no empty clause).  *)
(***************************************************************************)
RECURSIVE Group(_, _, _)
Group(flat, cuts, i) ==
    IF i = 0 THEN <<>>
    ELSE LET prev == Group(flat, cuts, i - 1)
         IN IF i = 1 \/ (i - 1) \in cuts THEN Append(prev, <<flat[i]>>)
            ELSE [prev EXCEPT ![Len(prev)] = Append(@, flat[i])]

Inputs ==
    UNION {{Group(flat, cuts, n) :
                flat \in [1..n -> Variable], cuts \in SUBSET (1..(n - 1))} :
           n \in 0..MaxOcc}

(***************************************************************************)
(* solve_all (sat-lib/src/solver.rs)                                       *)
(***************************************************************************)
VARIABLES
    heap,        \* formula objects: "caller" is the argument, "working" the clone
    formula,     \* the object the local `formula` names
    variables,   \* the literal order computed once
    solution,    \* the assignment buffer
    solutions,   \* the result list
    result,      \* what the last solve call returned
    iterations,  \* how many times the loop body has run
    start,       \* the buffer as the last solve call received it
    evaluated,   \* the satisfy_formula calls the last solve call made
    pc

vars == <<heap, formula, variables, solution, solutions, result, iterations,
          start, evaluated, pc>>

\* No copy: the local names the caller's object.
clone_alias(h, ref) == [heap |-> [o \in {"caller", "working"} |-> h[ref]], ref |-> ref]

\* Formula::clone: a new object holding a copy; the local names the new object.
clone(h, ref) == [heap |-> [o \in {"caller", "working"} |-> h[ref]], ref |-> "working"]

Init ==
    /\ heap \in {[o \in {"caller"} |-> f] : f \in Inputs}
    /\ formula = "caller"
    /\ variables = <<>>
    /\ solution = new
    /\ solutions = <<>>
    /\ result = None
    /\ iterations = 0
    /\ start = new
    /\ evaluated = <<>>
    /\ pc = "call"

\* Lines 12-15: clone the formula, compute the literal order, make the buffer.
Call ==
    /\ pc = "call"
    /\ LET c == clone(heap, formula)
       IN /\ heap' = c.heap
          /\ formula' = c.ref
          /\ variables' = literals(c.heap[c.ref])
    /\ solutions' = <<>>
    /\ solution' = new
    /\ pc' = "loop"
    /\ UNCHANGED <<result, iterations, start, evaluated>>

\* Lines 17-20: the loop condition, reset then solve.
Solve ==
    /\ pc = "loop"
    /\ start' = reset(solution)
    /\ LET r == solve(heap[formula], variables, reset(solution))
       IN /\ result' = r.result
          /\ solution' = r.solution
          /\ evaluated' = r.evaluated
          /\ pc' = IF r.result.tag = "Some" THEN "body" ELSE "return"
    /\ UNCHANGED <<heap, formula, variables, solutions, iterations>>

\* Lines 21-23: the loop body, record the solution and block it.
Record ==
    /\ pc = "body"
    /\ solutions' = Append(solutions, result.val)
    /\ \E order \in iter(result.val) :
           heap' = [heap EXCEPT ![formula] = add(@, negative_clause(result.val, order))]
    /\ iterations' = iterations + 1
    /\ pc' = "loop"
    /\ UNCHANGED <<formula, variables, solution, result, start, evaluated>>

\* Line 25
Return ==
    /\ pc = "return"
    /\ pc' = "done"
    /\ UNCHANGED <<heap, formula, variables, solution, solutions, result, iterations,
                   start, evaluated>>

Next == Call \/ Solve \/ Record \/ Return

Spec == Init /\ [][Next]_vars

(***************************************************************************)
(* Single calls.  A formula from Inputs, its literal order, and a buffer   *)
(* that binds any subset of its literals to any values; then one call of   *)
(* Solver::solve on it, or one evaluation of the formula under it by both  *)
(* evaluation functions.                                                   *)
(***************************************************************************)
Buffers(ids) == UNION {[S -> BOOLEAN] : S \in SUBSET ids}

InitSolve ==
    /\ heap \in {[o \in {"caller"} |-> f] : f \in Inputs}
    /\ formula = "caller"
    /\ variables = literals(heap[formula])
    /\ solution \in Buffers({variables[i] : i \in 1..Len(variables)})
    /\ start = solution
    /\ solutions = <<>>
    /\ result = None
    /\ iterations = 0
    /\ evaluated = <<>>
    /\ pc = "start"

\* solver.solve(&mut formula, &variables, &mut solution)
SolveOnce ==
    /\ pc = "start"
    /\ LET r == solve(heap[formula], variables, solution)
       IN /\ result' = r.result
          /\ solution' = r.solution
          /\ evaluated' = r.evaluated
    /\ pc' = "solved"
    /\ UNCHANGED <<heap, formula, variables, solutions, iterations, start>>

\* satisfy_formula(&formula, &solution) and solution.satisfy(&formula)
Evaluate ==
    /\ pc = "start"
    /\ result' = [satisfy_formula |-> satisfy_formula(heap[formula], solution),
                  satisfy         |-> satisfy(solution, heap[formula])]
    /\ pc' = "evaluated"
    /\ UNCHANGED <<heap, formula, variables, solution, solutions, iterations,
                   start, evaluated>>

NextSolve == SolveOnce \/ Evaluate

SolveSpec == InitSolve /\ [][NextSolve]_vars

(***************************************************************************)
(* The older driver (src/solver.rs).  Its eval_variable, satisfy_clause,   *)
(* satisfy_formula, get_variables and brute_force are the same code as the *)
(* ones above; its solve recomputes the literal list from the formula it   *)
(* is given and builds a fresh buffer with every literal false, and its    *)
(* solve_all builds the blocking clause in the loop body.  The locals of   *)
(* solve are kept in variables, start and solution.                        *)
(***************************************************************************)
\* Lines 148-151: Solution::new, then insert(variable, false) for each.
RECURSIVE all_false(_)
all_false(order) ==
    IF order = <<>> THEN new
    ELSE insert(all_false(SubSeq(order, 1, Len(order) - 1)), order[Len(order)], FALSE)

\* solver::solve
solver_solve(f) ==
    LET order == get_variables(f)
        r == brute_force(f, order, all_false(order))
    IN [result    |-> IF r.ok THEN Some(r.solution) ELSE None,
        variables |-> order,
        start     |-> all_false(order),
        solution  |-> r.solution,
        evaluated |-> r.evaluated]

\* Lines 133-140: one variable per entry of the solution, in iteration order.
blocking_clause(sol, order) ==
    [i \in 1..Len(order) |->
        IF sol[order[i]] THEN Negative(order[i]) ELSE Positive(order[i])]

\* Lines 127-128
LegacyCall ==
    /\ pc = "call"
    /\ LET c == clone(heap, formula)
       IN /\ heap' = c.heap
          /\ formula' = c.ref
    /\ solutions' = <<>>
    /\ pc' = "loop"
    /\ UNCHANGED <<variables, solution, result, iterations, start, evaluated>>

\* Line 129: while let Some(solution) = solve(&formula)
LegacySolve ==
    /\ pc = "loop"
    /\ LET r == solver_solve(heap[formula])
       IN /\ result' = r.result
          /\ variables' = r.variables
          /\ start' = r.start
          /\ solution' = r.solution
          /\ evaluated' = r.evaluated
          /\ pc' = IF r.result.tag = "Some" THEN "body" ELSE "return"
    /\ UNCHANGED <<heap, formula, solutions, iterations>>

\* Lines 130-142: the loop body.
LegacyRecord ==
    /\ pc = "body"
    /\ solutions' = Append(solutions, result.val)
    /\ \E order \in iter(result.val) :
           heap' = [heap EXCEPT ![formula] = Append(@, blocking_clause(result.val, order))]
    /\ iterations' = iterations + 1
    /\ pc' = "loop"
    /\ UNCHANGED <<formula, variables, solution, result, start, evaluated>>

\* Line 143
LegacyReturn ==
    /\ pc = "return"
    /\ pc' = "done"
    /\ UNCHANGED <<heap, formula, variables, solution, solutions, result, iterations,
                   start, evaluated>>

LegacyNext == LegacyCall \/ LegacySolve \/ LegacyRecord \/ LegacyReturn

LegacySpec == Init /\ [][LegacyNext]_vars

(***************************************************************************)
(* Reference semantics of CNF, stated independently of the evaluation      *)
(* code: the ids a formula mentions, and its satisfying total assignments. *)
(***************************************************************************)
Caller == heap["caller"]
Working == heap[formula]

RefLits(f) == {f[i][j].id : <<i, j>> \in
                  UNION {{<<c, v>> : v \in 1..Len(f[c])} : c \in 1..Len(f)}}

Holds(variable, a) ==
    \/ variable.pol = "Positive" /\ a[variable.id]
    \/ variable.pol = "Negative" /\ ~a[variable.id]

Sat(f, a) == \A i \in 1..Len(f) : \E j \in 1..Len(f[i]) : Holds(f[i][j], a)

Models(f) == {a \in [RefLits(f) -> BOOLEAN] : Sat(f, a)}

Found == {solutions[i] : i \in 1..Len(solutions)}

\* C1: Completeness.  When solve_all returns, the set of assignments in its
\* result is exactly the set of total assignments over the literals of the
\* caller's formula that satisfy it.
C1_Completeness == pc = "done" => Found = Models(Caller)

C1_Witness == pc = "done" /\ Cardinality(Models(Caller)) = 3 /\ Len(solutions) = 3

\* C2: Soundness.  Every assignment in the result list binds the literals of
\* the caller's formula and makes some variable of every clause true.
C2_Soundness ==
    \A i \in 1..Len(solutions) :
        /\ RefLits(Caller) \subseteq DOMAIN solutions[i]
        /\ Sat(Caller, solutions[i])

C2_Witness ==
    /\ pc = "done"
    /\ Len(solutions) >= 1
    /\ \E i \in 1..Len(Caller) : \E j \in 1..Len(Caller[i]) : Caller[i][j].pol = "Negative"

\* C3: No duplicates.  Two entries of the result list at distinct indices
\* differ in the value of at least one literal.
C3_NoDuplicates ==
    \A i, j \in 1..Len(solutions) :
        i # j => \E id \in (DOMAIN solutions[i]) \cap (DOMAIN solutions[j]) :
                     solutions[i][id] # solutions[j][id]

C3_Witness == Len(solutions) >= 2

\* C4: Termination.  The loop body runs at most 2^n times, n the number of
\* literals of the caller's formula, and the loop terminates: every step of
\* solve_all strictly decreases a measure that is never negative, made of the
\* iterations still allowed and the position in the loop.
Budget == 2 ^ Cardinality(RefLits(Caller)) - iterations

Rank ==
    2 * Budget + CASE pc = "call" -> 4
                   [] pc = "loop" -> 3
                   [] pc = "body" -> 2
                   [] pc = "return" -> 1
                   [] OTHER -> 0

C4_Termination ==
    /\ [](Budget >= 0)
    /\ [][Rank' < Rank]_vars

\* The bound is met: a tautology over n >= 1 literals has 2^n results.
C4_Witness == pc = "done" /\ Budget = 0 /\ Cardinality(RefLits(Caller)) >= 1

\* C5: Blocking-clause correctness.  An assignment that was found and blocked
\* is never returned by a later solve call of the same enumeration.
C5_Blocked ==
    pc = "body" => \A i \in 1..Len(solutions) : solutions[i] # result.val

C5_Witness == pc = "body" /\ Len(solutions) >= 1

\* C6: Empty formula.  On a formula with no clause solve_all records exactly
\* one result, the assignment that binds no literal, and stops.
C6_EmptyFormula ==
    Caller = <<>> =>
        /\ Len(solutions) <= 1
        /\ \A i \in 1..Len(solutions) : DOMAIN solutions[i] = {}
        /\ pc = "done" => Len(solutions) = 1

C6_Witness == Caller = <<>> /\ pc = "done" /\ solutions = <<new>>

\* C7: Unsatisfiable is a normal outcome.  For a formula no total assignment
\* satisfies, the solve call returns None, the loop body never runs and
\* solve_all returns the empty list.
C7_Unsat ==
    Models(Caller) = {} =>
        /\ pc # "body"
        /\ solutions = <<>>
        /\ pc \in {"return", "done"} => result = None

C7_Witness ==
    /\ Caller = <<<<Positive(1)>>, <<Negative(1)>>>>
    /\ pc = "done"
    /\ result = None
    /\ solutions = <<>>

\* C8: Single-solve contract.  Every solve call is made with the literal
\* order of the formula it is given; it returns Some(a), with a binding
\* exactly those literals and satisfying the formula, whenever a satisfying
\* total assignment exists, and None only when none exists.
C8_SolveContract ==
    pc \in {"body", "return"} =>
        /\ variables = literals(Working)
        /\ Models(Working) # {} => result.tag = "Some"
        /\ result.tag = "Some" =>
              /\ DOMAIN result.val = RefLits(Working)
              /\ Sat(Working, result.val)
        /\ result = None => Models(Working) = {}

C8_Witness ==
    /\ pc = "body"
    /\ Len(Working) > Len(Caller)
    /\ Cardinality(RefLits(Working)) = 2
    /\ \E id \in DOMAIN result.val : result.val[id]

\* C9: The caller's formula is never modified: no step of solve_all changes
\* the clauses of the formula that was passed in.
C9_CallerUnchanged == [][heap'["caller"] = heap["caller"]]_vars

C9_Witness == pc = "done" /\ Len(heap["working"]) >= Len(heap["caller"]) + 2

\* C10: Every assignment in the result list is fully populated: its keys are
\* exactly the literals of the caller's formula.
C10_FullyPopulated ==
    \A i \in 1..Len(solutions) : DOMAIN solutions[i] = RefLits(Caller)

C10_Witness ==
    /\ Len(solutions) >= 1
    /\ RefLits(Caller) = {1, 3}
    /\ \E i \in 1..Len(Caller) : \E j \in 1..Len(Caller[i]) : Caller[i][j].pol = "Negative"

\* C11: referencedLiterals.  Formula::literals and get_variables return, for
\* every formula the enumeration meets (the input and its extensions by
\* blocking clauses), the ids occurring in any clause with either polarity,
\* each exactly once, in strictly ascending order; the literal order the
\* driver keeps is that of the caller's formula.  The working formula only
\* changes on the steps into "loop", so it is looked at there and at the start.
StrictlyAscending(s) == \A i \in 1..(Len(s) - 1) : s[i] < s[i + 1]

Range(s) == {s[i] : i \in 1..Len(s)}

C11_ReferencedLiterals ==
    [](/\ pc \in {"call", "loop"} =>
              LET byLiterals == literals(Working)
                  byGetVariables == get_variables(Working)
              IN /\ StrictlyAscending(byLiterals)
                 /\ Range(byLiterals) = RefLits(Working)
                 /\ StrictlyAscending(byGetVariables)
                 /\ Range(byGetVariables) = RefLits(Working)
       /\ pc # "call" => variables = literals(Caller))

C11_Witness ==
    /\ pc = "loop"
    /\ Caller = <<<<Negative(3), Positive(1)>>>>
    /\ Len(Working) = Len(Caller) + 2
    /\ variables = <<1, 3>>
    /\ get_variables(Working) = <<1, 3>>

RECURSIVE AscendingRun(_, _, _, _)
AscendingRun(f, order, sol, found) ==
    LET r == solve(f, order, reset(sol))
    IN IF r.result.tag = "Some"
       THEN AscendingRun(
                add(f, negative_clause(r.result.val, ascending(DOMAIN r.result.val))),
                order, r.solution, Append(found, r.result.val))
       ELSE found

C13_Deterministic ==
    [](pc = "done" => solutions = AscendingRun(Caller, literals(Caller), new, <<>>))

\* A finished run whose blocking clauses were all emitted in descending order.
C13_Witness ==
    /\ pc = "done"
    /\ Len(solutions) >= 2
    /\ Cardinality(RefLits(Caller)) = 2
    /\ \A k \in 1..Len(solutions) :
           Working[Len(Caller) + k]
               = negative_clause(solutions[k], reverse(ascending(DOMAIN solutions[k])))

\* The buffer's binding for an id: <<value>> when bound, <<>> when absent.
binding(sol, id) == IF id \in DOMAIN sol THEN <<sol[id]>> ELSE <<>>

Failed == pc = "solved" /\ result = None /\ variables # <<>>

\* C14 as stated: when brute_force on a non-empty literal list reports
\* failure, the buffer's binding for the first literal is the same after the
\* call as before it, for every starting buffer, including one that already
\* bound that literal.
C14_FailureRestores ==
    Failed => binding(solution, Head(variables)) = binding(start, Head(variables))

\* C14, amended: when brute_force on a non-empty literal list reports failure,
\* the buffer holds no binding for the first literal after the call, so the
\* binding is the same as before the call exactly when the starting buffer did
\* not bind that literal.
C14_FailureClears ==
    Failed =>
        /\ Head(variables) \notin DOMAIN solution
        /\ (binding(solution, Head(variables)) = binding(start, Head(variables)))
               <=> (Head(variables) \notin DOMAIN start)

\* A failed call whose starting buffer bound the first literal.
C14_Witness ==
    /\ Failed
    /\ Caller = <<<<Positive(2)>>, <<Negative(2)>>>>
    /\ start = [id \in {2} |-> TRUE]
    /\ solution = new

\* C15: The solver does not rely on an empty buffer.  Whatever subset of the
\* referenced literals the starting buffer binds, and to whatever values, solve
\* returns the outcome it returns from the empty buffer.
C15_StaleBuffer ==
    pc = "solved" => result = solve(Caller, variables, new).result

\* A call that started from a buffer holding a stale true for literal 1 and
\* returned literal 1 false.
C15_Witness ==
    /\ pc = "solved"
    /\ Caller = <<<<Negative(1), Positive(2)>>>>
    /\ start = [id \in {1} |-> TRUE]
    /\ result = Some([id \in {1, 2} |-> FALSE])

\* a comes before b in lexicographic order over ascending ids with false
\* before true: at the least id where they differ, a is false and b is true.
LexLess(a, b) ==
    \E id \in DOMAIN a :
        /\ ~a[id] /\ b[id]
        /\ \A k \in DOMAIN a : k < id => a[k] = b[k]

\* C16: Tie-break.  A single solve call on a satisfiable formula returns the
\* satisfying assignment that is least in lexicographic order over the
\* ascending literal order with false before true, the first literal being the
\* most significant.
C16_TieBreak ==
    (pc = "solved" /\ Models(Caller) # {}) =>
        /\ result.tag = "Some"
        /\ result.val \in Models(Caller)
        /\ \A m \in Models(Caller) \ {result.val} : LexLess(result.val, m)

\* A call on a formula with three models, none of them all-false.
C16_Witness ==
    /\ pc = "solved"
    /\ Caller = <<<<Positive(1), Positive(3)>>>>
    /\ Cardinality(Models(Caller)) = 3
    /\ result = Some([id \in {1, 3} |-> id = 3])

\* The last solve call has returned and the working formula is still the one
\* it was given.
Solved == pc \in {"body", "return"}

\* C17: No early pruning.  Every satisfaction evaluation of a solve call is on
\* an assignment that binds every ordered literal; on an unsatisfiable formula
\* with n distinct literals the call makes exactly 2^n evaluations, one per
\* total assignment over the literals, and returns failure.
C17_NoPruning ==
    [](Solved =>
              /\ \A k \in 1..Len(evaluated) :
                     Range(variables) \subseteq DOMAIN evaluated[k].assignment
              /\ Models(Working) = {} =>
                     /\ result = None
                     /\ Len(evaluated) = 2 ^ Cardinality(RefLits(Working))
                     /\ {evaluated[k].assignment : k \in 1..Len(evaluated)}
                            = [RefLits(Working) -> BOOLEAN])

\* The failing last call on x1 \/ x2 after its three models were blocked.
C17_Witness ==
    /\ pc = "return"
    /\ Caller = <<<<Positive(1), Positive(2)>>>>
    /\ Len(solutions) = 3
    /\ Models(Working) = {}
    /\ Len(evaluated) = 4

\* C18: The working formula is append-only.  From the clone on, the caller's
\* clauses are an unchanged prefix of the working formula and its clause count
\* is the caller's plus the number of results recorded; every step keeps the
\* clauses it found, and adds exactly one clause when it records a result and
\* none otherwise.
C18_AppendOnly ==
    /\ [](pc # "call" =>
            /\ SubSeq(Working, 1, Len(Caller)) = Caller
            /\ Len(Working) = Len(Caller) + Len(solutions))
    /\ [][pc # "call" =>
            /\ SubSeq(Working', 1, Len(Working)) = Working
            /\ Len(Working') - Len(Working) = Len(solutions') - Len(solutions)
            /\ Len(solutions') - Len(solutions) \in {0, 1}]_vars

\* Three results recorded on a one-clause formula.
C18_Witness ==
    /\ pc = "loop"
    /\ Caller = <<<<Positive(1), Negative(2)>>>>
    /\ Len(solutions) = 3
    /\ Len(Working) = 4
    /\ Head(Working) = Head(Caller)

\* The clause appended for the k-th recorded result.
Blocking(k) == Working[Len(Caller) + k]

\* C19: Blocking clause shape.  The clause built from a found assignment a
\* holds exactly one variable per literal a binds, Negative(id) where a[id] is
\* true and Positive(id) where it is false; among the total assignments over
\* those literals it is falsified by a and satisfied by every other one.
C19_BlockingShape ==
    [](pc # "call" =>
              \A k \in 1..Len(solutions) :
                  LET a == solutions[k]
                      c == Blocking(k)
                  IN /\ Len(c) = Cardinality(DOMAIN a)
                     /\ \A id \in DOMAIN a :
                            \E j \in 1..Len(c) :
                                c[j] = IF a[id] THEN Negative(id) ELSE Positive(id)
                     /\ \A b \in [DOMAIN a -> BOOLEAN] :
                            (\E j \in 1..Len(c) : Holds(c[j], b)) <=> (b # a))

\* The clause for x1 = false, x3 = true, in either emission order.
C19_Witness ==
    /\ pc = "loop"
    /\ Caller = <<<<Negative(1)>>, <<Positive(3)>>>>
    /\ solutions = <<[id \in {1, 3} |-> id = 3]>>
    /\ Blocking(1) \in {<<Positive(1), Negative(3)>>, <<Negative(3), Positive(1)>>}

\* C20: No unassigned-literal lookup during enumeration.  At every
\* satisfaction evaluation of a solve call made by solve_all the buffer binds
\* every literal id the working formula references, caller's clauses and
\* blocking clauses alike, so the strict lookup does not panic and the strict
\* evaluation answers what the default-to-false evaluation answered.
C20_NoUnassignedLookup ==
    [](Solved =>
              \A k \in 1..Len(evaluated) :
                  LET a == evaluated[k].assignment
                  IN /\ RefLits(Working) \subseteq DOMAIN a
                     /\ satisfy(a, Working) # "panic"
                     /\ (satisfy(a, Working) = "true") = evaluated[k].value)

\* The failing last call on a formula with three blocking clauses: four
\* evaluations, all strict and all answering false.
C20_Witness ==
    /\ pc = "return"
    /\ Caller = <<<<Negative(3), Positive(1)>>>>
    /\ Len(Working) = 4
    /\ Len(evaluated) = 4
    /\ \A k \in 1..Len(evaluated) :
           satisfy(evaluated[k].assignment, Working) = "false"

\* C21: Enumeration order.  The list solve_all builds is strictly increasing
\* in lexicographic order over ascending ids with false before true, and each
\* result is the least model of the caller's formula that is not among the
\* results before it.
C21_EnumerationOrder ==
    [](pc # "call" =>
          \A k \in 1..Len(solutions) :
              /\ \A i \in 1..(k - 1) : LexLess(solutions[i], solutions[k])
              /\ solutions[k] \in Models(Caller)
              /\ \A m \in Models(Caller) \ {solutions[i] : i \in 1..k} :
                     LexLess(solutions[k], m))

\* The three models of x1 \/ x3 in the order found.
C21_Witness ==
    /\ pc = "done"
    /\ Caller = <<<<Positive(1), Positive(3)>>>>
    /\ solutions = << [id \in {1, 3} |-> id = 3],
                      [id \in {1, 3} |-> id = 1],
                      [id \in {1, 3} |-> TRUE] >>

\* The trait-based solve_all run to its end on f, every blocking clause
\* emitted in ascending key order: its result list and its last working formula.
RECURSIVE TraitRun(_, _, _, _)
TraitRun(f, order, sol, found) ==
    LET r == solve(f, order, reset(sol))
    IN IF r.result.tag = "Some"
       THEN TraitRun(
                add(f, negative_clause(r.result.val, ascending(DOMAIN r.result.val))),
                order, r.solution, Append(found, r.result.val))
       ELSE [formula |-> f, solutions |-> found]

\* The same variables, in any order.
SameClause(c, d) == Len(c) = Len(d) /\ Range(c) = Range(d)

\* C22: The two drivers are equivalent.  When the older solve_all returns,
\* its result list is the list of the trait-based solve_all, in the same
\* order, and its working formula holds the caller's clauses followed by the
\* same blocking clauses up to the order of the variables inside a clause.
\* Each of its steps keeps the results and clauses it found and adds one of
\* each per iteration, so what it holds after the k-th iteration is the first
\* k results and blocking clauses of the trait-based one.
C22_DriversEquivalent ==
    /\ [](pc = "done" =>
            LET t == TraitRun(Caller, literals(Caller), new, <<>>)
            IN /\ solutions = t.solutions
               /\ Len(Working) = Len(t.formula)
               /\ SubSeq(Working, 1, Len(Caller)) = Caller
               /\ \A i \in 1..Len(solutions) :
                      SameClause(Working[Len(Caller) + i], t.formula[Len(Caller) + i]))
    /\ [][pc # "call" =>
            /\ SubSeq(solutions', 1, Len(solutions)) = solutions
            /\ SubSeq(Working', 1, Len(Working)) = Working
            /\ Len(Working') = Len(Caller) + Len(solutions')]_vars

\* The older driver done with a clause that names literal 3 before literal 1,
\* its blocking clauses emitted in descending order.
C22_Witness ==
    /\ pc = "done"
    /\ Caller = <<<<Positive(3), Negative(1)>>>>
    /\ Len(solutions) = 3
    /\ start = [id \in {1, 3} |-> FALSE]
    /\ \A i \in 1..3 : Working[1 + i][1].id = 3

\* C23: The buffer after a solve call over the ordered literals.  When the
\* call returns None the buffer holds no binding for any of the literals;
\* when it returns an assignment the buffer binds every one of the literals
\* and equals the assignment returned.  The driver's calls are looked at: its
\* last one fails at every level, from a buffer that binds every literal.
C23_BufferAfterSolve ==
    [](Solved =>
          /\ result = None => Range(variables) \cap DOMAIN solution = {}
          /\ result # None =>
                 /\ Range(variables) \subseteq DOMAIN solution
                 /\ solution = result.val)

\* The failed last call on two literals, both bound before it.
C23_Witness ==
    /\ pc = "return"
    /\ result = None
    /\ variables = <<1, 3>>
    /\ start = [id \in {1, 3} |-> FALSE]
    /\ solution = new

====
